---- MODULE Spec2Model ----
(***************************************************************************)
(* A model of export_help_scout_docs.py: the command line tool that lists  *)
(* the articles of one Help Scout Docs collection page by page, fetches    *)
(* every article by id and writes each to a uniquely named JSON file.      *)
(*                                                                         *)
(* The program is single threaded; pc is the position of that one thread.  *)
(* The remote server and the rest of the machine (another process that     *)
(* creates the output directory) are the environment.                      *)
(*                                                                         *)
(* Byte strings that get base64 encoded (the token, the password) are      *)
(* sequences of ASCII codes; URLs, file names and slugs are strings.       *)
(***************************************************************************)
EXTENDS Integers, Sequences, FiniteSets, TLC

(* ------------------------------ bounds -------------------------------- *)

\* Page numbers and page totals a listing response may carry: 0..MaxPages.
\* A listing loop is cut after MaxPages page requests.
MaxPages == 2

\* The most entities (collections or article summaries) one listing returns.
MaxEntities == 2

\* The largest value of safe_get's retries parameter that is tried.
MaxAttempts == 3

\* The largest numeric suffix of a file that exists before unique_filename
\* is called on an arbitrary directory.
MaxSuffix == 2

(* ----------------------------- constants ------------------------------ *)

REQUEST_DELAY == 1

\* safe_get(url, params=None, auth=None, retries=2)
DefaultRetries == 2

\* Python's None, for a byte string, for a string and for a page number.
NoneBytes == <<-1>>
NoneStr == "None"
NonePage == -1

\* ASCII
Colon == <<58>>
TokenABC == <<97, 98, 99>>
PasswordX == <<120>>
EmptyBytes == <<>>

\* Python truthiness of an optional byte string: None and "" are falsy.
Truthy(bytes) == bytes # NoneBytes /\ bytes # EmptyBytes

(* ------------------------- library functions -------------------------- *)

B64Alphabet ==
  << "A","B","C","D","E","F","G","H","I","J","K","L","M","N","O","P",
     "Q","R","S","T","U","V","W","X","Y","Z","a","b","c","d","e","f",
     "g","h","i","j","k","l","m","n","o","p","q","r","s","t","u","v",
     "w","x","y","z","0","1","2","3","4","5","6","7","8","9","+","/" >>

B64Char(n) == B64Alphabet[n + 1]

\* base64.b64encode(bytes).decode("ascii"): three bytes make four characters,
\* a last group of one or two bytes is padded with "=".
RECURSIVE b64encode(_)
b64encode(bytes) ==
  IF Len(bytes) = 0 THEN ""
  ELSE IF Len(bytes) = 1 THEN
    B64Char(bytes[1] \div 4) \o B64Char((bytes[1] % 4) * 16) \o "=="
  ELSE IF Len(bytes) = 2 THEN
    B64Char(bytes[1] \div 4)
      \o B64Char((bytes[1] % 4) * 16 + bytes[2] \div 16)
      \o B64Char((bytes[2] % 16) * 4) \o "="
  ELSE
    B64Char(bytes[1] \div 4)
      \o B64Char((bytes[1] % 4) * 16 + bytes[2] \div 16)
      \o B64Char((bytes[2] % 16) * 4 + bytes[3] \div 64)
      \o B64Char(bytes[3] % 64)
      \o b64encode(SubSeq(bytes, 4, Len(bytes)))

\* urllib.parse.urlencode of a dict given as a sequence of <<key, number>>.
RECURSIVE urlencode(_)
urlencode(params) ==
  IF Len(params) = 0 THEN ""
  ELSE params[1][1] \o "=" \o ToString(params[1][2])
         \o (IF Len(params) = 1 THEN "" ELSE "&" \o urlencode(Tail(params)))

NoParams == <<>>
NoAuth == <<>>
NoHeader == ""

\* The Authorization header safe_get builds from auth = (username, password).
AuthorizationHeader(auth) ==
  IF auth = NoAuth THEN NoHeader
  ELSE LET username == auth[1]
           password == IF auth[2] = NoneBytes THEN EmptyBytes ELSE auth[2]
       IN "Basic " \o b64encode(username \o Colon \o password)

\* A help_scout_get that passes an empty password.
HelpScoutAuthPasswordEmpty(tok) ==
  IF Truthy(tok) THEN <<tok, EmptyBytes>> ELSE NoAuth

\* help_scout_get's auth tuple for a token: (token, "x"), or None.
HelpScoutAuth(tok) == IF Truthy(tok) THEN <<tok, PasswordX>> ELSE NoAuth

(* --------------------------- unique_filename -------------------------- *)

\* The while loop of unique_filename: names are the files of the directory.
RECURSIVE unique_filename_loop(_, _, _, _, _)
unique_filename_loop(names, base_filename, extension, suffix, counter) ==
  IF (base_filename \o suffix \o extension) \in names
  THEN unique_filename_loop(names, base_filename, extension,
                            "-" \o ToString(counter), counter + 1)
  ELSE base_filename \o suffix \o extension

\* Slips of unique_filename: the counter starts at 0; the loop is left out.
unique_filename_from_zero(names, base_filename, extension) ==
  unique_filename_loop(names, base_filename, extension, "", 0)

unique_filename_no_loop(names, base_filename, extension) ==
  base_filename \o extension

unique_filename(names, base_filename, extension) ==
  unique_filename_loop(names, base_filename, extension, "", 1)

(* ------------------------------- values ------------------------------- *)

TokenXY == <<120, 121>>

CollectionsUrl == "https://docsapi.helpscout.net/v1/collections"

ArticlesListUrl(collection_id) ==
  "https://docsapi.helpscout.net/v1/collections/" \o collection_id \o "/articles"

ArticleUrl(article_id) ==
  "https://docsapi.helpscout.net/v1/articles/" \o article_id

\* datetime.now().isoformat(), one instant standing for all.
NowIso == "2024-01-01T00:00:00"

\* What the server holds: the entities of each listing in the server's
\* order, the slugs an article may have, the HTTP errors it may answer with.
ArticleCatalogue == << [id |-> "a1"], [id |-> "a2"] >>
CollectionCatalogue == << [id |-> "c1"], [id |-> "c2"] >>
SlugSet == {"intro", "intro-1"}
HTTPErrorCodes == {404, 500}

NoData == [kind |-> "none"]
NoExc == [kind |-> "none", code |-> 0]
HTTPError(code) == [kind |-> "HTTPError", code |-> code]
URLError == [kind |-> "URLError", code |-> 0]
JSONDecodeError == [kind |-> "JSONDecodeError", code |-> 0]
\* What urlopen and json.loads raise that is no HTTPError.
OtherErrors == {URLError, JSONDecodeError}
PlainException == [kind |-> "Exception", code |-> 0]

\* The item lists a page may carry: any run of consecutive entities of the
\* catalogue (so pages may overlap), as long as the listing stays within
\* MaxEntities entities in all.
PageItems(catalogue, room) ==
  { s \in { SubSeq(catalogue, a, b) :
              a \in 1..(Len(catalogue) + 1), b \in 0..Len(catalogue) } :
      Len(s) <= room }

\* A file another process left in the output directory.
OldDoc == [kind |-> "article", article |-> [slug |-> "intro", id |-> "old"]]
NoFiles == [n \in {} |-> NoData]

(* -------------------------------- state ------------------------------- *)

VARIABLES
  pc,              \* position of the program
  args,            \* argparse result: token, collection, output_dir
  environ,         \* os.getenv("HELPSCOUTAUTH")
  token,           \* main's token
  directory_path,  \* main's directory_path
  dir_exists,      \* whether directory_path exists in the file system
  files,           \* the files of directory_path: name -> content
  mkdir_done,      \* fetch_articles created the directory
  written,         \* the writes of fetch_articles, in order
  status,          \* exit status of the process, NonePage while running
  exit_reason,     \* why the process ended
  raised,          \* the exception that left safe_get
  entity_name,     \* get_paged_help_scout_entities: entity_name
  paged_url,       \* get_paged_help_scout_entities: url
  current_page, total_pages, next_page, entities,
  page_requests,   \* the next_page of every loop iteration, in order
  page_responses,  \* the decoded response of every loop iteration, in order
  caller,          \* who called help_scout_get: "paged", "articles", "none"
  url, params, auth, retries, attempt,     \* safe_get's frame
  calls,           \* the network calls of this safe_get call, in order
  sg_status,       \* "idle", "running", "returned", "raised"
  data,            \* what safe_get returned
  article_ids, i, articles, article_path,  \* fetch_articles' frame
  slept,           \* seconds of time.sleep since the last network call
  net_used         \* a network call was made

vars == << pc, args, environ, token, directory_path, dir_exists, files,
           mkdir_done, written, status, exit_reason, raised, entity_name,
           paged_url, current_page, total_pages, next_page, entities,
           page_requests, page_responses, caller, url, params, auth, retries,
           attempt, calls, sg_status, data, article_ids, i, articles,
           article_path, slept, net_used >>

mainVars == << args, environ, token, directory_path >>
fsVars == << dir_exists, files, mkdir_done, written >>
exitVars == << status, exit_reason >>
pagedVars == << entity_name, paged_url, current_page, total_pages, next_page,
                entities, page_requests, page_responses >>
frameVars == << caller, url, params, auth, retries, attempt, calls, sg_status >>
fetchVars == << article_ids, i, articles, article_path >>

\* Everything but the command line, the environment and the file system.
InitRest ==
  /\ token = NoneBytes
  /\ directory_path = NoneStr
  /\ mkdir_done = FALSE
  /\ written = <<>>
  /\ status = NonePage
  /\ exit_reason = "running"
  /\ raised = NoExc
  /\ entity_name = NoneStr
  /\ paged_url = NoneStr
  /\ current_page = NonePage
  /\ total_pages = NonePage
  /\ next_page = 1
  /\ entities = <<>>
  /\ page_requests = <<>>
  /\ page_responses = <<>>
  /\ data = NoData
  /\ article_ids = <<>>
  /\ i = 0
  /\ articles = <<>>
  /\ article_path = NoneStr
  /\ slept = 0
  /\ net_used = FALSE

InitIdleFrame ==
  /\ caller = "none"
  /\ url = NoneStr
  /\ params = NoParams
  /\ auth = NoAuth
  /\ retries = DefaultRetries
  /\ attempt = 0
  /\ calls = <<>>
  /\ sg_status = "idle"

\* The command lines and environments tried: --token given or not,
\* HELPSCOUTAUTH unset, empty or set; --collection and --output_dir given or
\* not.
TokenInputs ==
  { <<NoneBytes, NoneBytes>>, <<TokenABC, TokenXY>>, <<NoneBytes, EmptyBytes>>,
    <<NoneBytes, TokenXY>> }

TargetInputs ==
  { <<NoneStr, NoneStr>>, <<"c1", NoneStr>>, <<"c1", "out">> }

\* The process starts in main; the output directory may exist already.
Init ==
  /\ pc = "main"
  /\ \E t \in TokenInputs, c \in TargetInputs :
       /\ args = [token |-> t[1], collection |-> c[1], output_dir |-> c[2]]
       /\ environ = t[2]
  /\ dir_exists \in BOOLEAN
  /\ files = IF dir_exists THEN [n \in {"intro.json"} |-> OldDoc] ELSE NoFiles
  /\ InitRest
  /\ InitIdleFrame

(* ------------------------------- exits -------------------------------- *)

\* The process ends: exit(code), parser.error (status 2) or an uncaught
\* exception (status 1).
Exit(code, reason) ==
  /\ pc' = "exit"
  /\ status' = code
  /\ exit_reason' = reason

(* ------------------------------- calls -------------------------------- *)

\* help_scout_get(url, params, token) -> safe_get(url, params, auth), as
\* called by who.
CallHelpScoutGet(u, p, tok, who) ==
  /\ pc' = "safe_get"
  /\ caller' = who
  /\ url' = u
  /\ params' = p
  /\ auth' = HelpScoutAuth(tok)
  /\ retries' = DefaultRetries
  /\ attempt' = 0
  /\ calls' = <<>>
  /\ sg_status' = "running"

\* get_paged_help_scout_entities(token, url, entity_name), up to its loop.
CallPaged(u, name) ==
  /\ pc' = "paged_loop"
  /\ entity_name' = name
  /\ paged_url' = u
  /\ current_page' = NonePage
  /\ total_pages' = NonePage
  /\ next_page' = 1
  /\ entities' = <<>>
  /\ page_requests' = <<>>
  /\ page_responses' = <<>>

\* safe_get has returned to its caller: its frame is gone.
SafeGetFrameGone ==
  /\ caller' = "none"
  /\ url' = NoneStr
  /\ params' = NoParams
  /\ auth' = NoAuth
  /\ retries' = DefaultRetries
  /\ attempt' = 0
  /\ calls' = <<>>
  /\ sg_status' = "idle"

(* -------------------------------- main -------------------------------- *)

\* token = args.token or os.getenv("HELPSCOUTAUTH"); None is an error.
MainToken ==
  /\ pc = "main"
  /\ token' = IF Truthy(args.token) THEN args.token ELSE environ
  /\ IF token' = NoneBytes
     THEN Exit(2, "no_token")
     ELSE pc' = "main_collection" /\ UNCHANGED exitVars
  /\ UNCHANGED << args, environ, directory_path, fsVars, raised, pagedVars,
                  frameVars, data, fetchVars, slept, net_used >>

\* No --collection: list the collections.
MainListCollections ==
  /\ pc = "main_collection"
  /\ args.collection = NoneStr
  /\ CallPaged(CollectionsUrl, "collections")
  /\ UNCHANGED << mainVars, fsVars, exitVars, raised, frameVars, data,
                  fetchVars, slept, net_used >>

\* A main that creates the output directory before the articles are listed.
MainCheckDirMkdirFirst ==
  /\ pc = "main_collection"
  /\ args.collection # NoneStr
  /\ directory_path' = IF args.output_dir = NoneStr
                       THEN "help-scout-export-" \o NowIso
                       ELSE args.output_dir
  /\ IF dir_exists
     THEN /\ Exit(2, "output_dir_exists")
          /\ UNCHANGED << pagedVars, fsVars >>
     ELSE /\ CallPaged(ArticlesListUrl(args.collection), "articles")
          /\ dir_exists' = TRUE
          /\ mkdir_done' = TRUE
          /\ UNCHANGED << files, written, exitVars >>
  /\ UNCHANGED << args, environ, token, raised, frameVars, data, fetchVars,
                  slept, net_used >>

\* A main that does not look whether the output directory exists.
MainCheckDirUnchecked ==
  /\ pc = "main_collection"
  /\ args.collection # NoneStr
  /\ directory_path' = IF args.output_dir = NoneStr
                       THEN "help-scout-export-" \o NowIso
                       ELSE args.output_dir
  /\ CallPaged(ArticlesListUrl(args.collection), "articles")
  /\ UNCHANGED << args, environ, token, fsVars, exitVars, raised, frameVars,
                  data, fetchVars, slept, net_used >>

\* --collection: settle the output directory, refuse an existing one, and
\* start export_help_scout_docs with get_article_ids.
MainCheckDir ==
  /\ pc = "main_collection"
  /\ args.collection # NoneStr
  /\ directory_path' = IF args.output_dir = NoneStr
                       THEN "help-scout-export-" \o NowIso
                       ELSE args.output_dir
  /\ IF dir_exists
     THEN /\ Exit(2, "output_dir_exists")
          /\ UNCHANGED pagedVars
     ELSE /\ CallPaged(ArticlesListUrl(args.collection), "articles")
          /\ UNCHANGED exitVars
  /\ UNCHANGED << args, environ, token, fsVars, raised, frameVars, data,
                  fetchVars, slept, net_used >>

(* -------------------- get_paged_help_scout_entities -------------------- *)

\* A loop that goes on while current_page <= total_pages.
PagedLoopConditionInclusive ==
  current_page = NonePage \/ current_page <= total_pages

\* while current_page is None or current_page < total_pages
PagedLoopCondition == current_page = NonePage \/ current_page < total_pages

\* One more iteration: ask for page next_page.
PagedLoop ==
  /\ pc = "paged_loop"
  /\ PagedLoopCondition
  /\ Len(page_requests) < MaxPages
  /\ page_requests' = Append(page_requests, next_page)
  /\ CallHelpScoutGet(paged_url, << <<"page", next_page>> >>, token, "paged")
  /\ UNCHANGED << mainVars, fsVars, exitVars, raised, entity_name, paged_url,
                  current_page, total_pages, next_page, entities,
                  page_responses, data, fetchVars, slept, net_used >>

\* A loop that drops the entities it has already seen.
RECURSIVE AppendAllDedup(_, _)
AppendAllDedup(list, items) ==
  IF items = <<>> THEN list
  ELSE AppendAllDedup(IF \E k \in 1..Len(list) : list[k] = Head(items)
                      THEN list ELSE Append(list, Head(items)),
                      Tail(items))

\* for entity in items: entities.append(entity)
RECURSIVE AppendAll(_, _)
AppendAll(list, items) ==
  IF items = <<>> THEN list
  ELSE AppendAll(Append(list, Head(items)), Tail(items))

\* The rest of the iteration: decode the page, keep its items, sleep.
PagedResponse ==
  /\ pc = "paged_resp"
  /\ current_page' = data.page
  /\ total_pages' = data.pages
  /\ next_page' = current_page' + 1
  /\ entities' = AppendAll(entities, data.items)
  /\ page_responses' = Append(page_responses, data)
  /\ slept' = slept + REQUEST_DELAY
  /\ pc' = "paged_loop"
  /\ SafeGetFrameGone
  /\ UNCHANGED << mainVars, fsVars, exitVars, raised, entity_name, paged_url,
                  page_requests, data, fetchVars, net_used >>

\* The loop condition fails: return entities.
PagedReturn ==
  /\ pc = "paged_loop"
  /\ ~PagedLoopCondition
  /\ pc' = "paged_ret"
  /\ UNCHANGED << mainVars, fsVars, exitVars, raised, pagedVars, frameVars,
                  data, fetchVars, slept, net_used >>

\* The frame of get_paged_help_scout_entities is gone once it has returned.
PagedFrameGone ==
  /\ entity_name' = NoneStr
  /\ paged_url' = NoneStr
  /\ current_page' = NonePage
  /\ total_pages' = NonePage
  /\ next_page' = 1
  /\ entities' = <<>>
  /\ page_requests' = <<>>
  /\ page_responses' = <<>>

\* A main that ends with status 0 once it has printed the collections.
GetCollectionsReturnZero ==
  /\ pc = "paged_ret"
  /\ entity_name = "collections"
  /\ IF entities = <<>>
     THEN Exit(2, "no_collections")
     ELSE Exit(0, "collections_listed")
  /\ PagedFrameGone
  /\ UNCHANGED << mainVars, fsVars, raised, frameVars, data, fetchVars,
                  slept, net_used >>

\* main, after get_collections: none found is an error, else print and exit(1).
GetCollectionsReturn ==
  /\ pc = "paged_ret"
  /\ entity_name = "collections"
  /\ IF entities = <<>>
     THEN Exit(2, "no_collections")
     ELSE Exit(1, "collections_listed")
  /\ PagedFrameGone
  /\ UNCHANGED << mainVars, fsVars, raised, frameVars, data, fetchVars,
                  slept, net_used >>

\* [article["id"] for article in articles]
ArticleIdsOf(list) == [k \in 1..Len(list) |-> list[k].id]

\* get_article_ids returns to export_help_scout_docs, which calls
\* fetch_articles.
GetArticleIdsReturn ==
  /\ pc = "paged_ret"
  /\ entity_name = "articles"
  /\ article_ids' = ArticleIdsOf(entities)
  /\ articles' = <<>>
  /\ i' = 0
  /\ pc' = "fetch_mkdir"
  /\ PagedFrameGone
  /\ UNCHANGED << mainVars, fsVars, exitVars, raised, frameVars, data,
                  article_path, slept, net_used >>

(* ------------------------------ safe_get ------------------------------ *)

\* The URL of this attempt: the query string is appended inside the loop.
AttemptUrl ==
  IF params # NoParams THEN url \o "?" \o urlencode(params) ELSE url

AttemptRequest ==
  [url |-> AttemptUrl, Authorization |-> AuthorizationHeader(auth)]

\* What a 200 response may decode to, by the endpoint asked.
ResponseDocs ==
  IF caller = "paged" THEN
    { [kind |-> "page", page |-> p, pages |-> t, items |-> its] :
        p \in 0..MaxPages, t \in 0..MaxPages,
        its \in PageItems(IF entity_name = "collections"
                           THEN CollectionCatalogue ELSE ArticleCatalogue,
                         MaxEntities - Len(entities)) }
  ELSE IF caller = "articles" THEN
    { [kind |-> "article",
       article |-> [slug |-> s, id |-> article_ids[i + 1]]] : s \in SlugSet }
  ELSE
    { [kind |-> "article", article |-> [slug |-> s, id |-> "a1"]] :
        s \in SlugSet }

\* urlopen(request): one network call, logged with its outcome.
NetworkCall(outcome, code, doc) ==
  /\ calls' = Append(calls, [request |-> AttemptRequest, outcome |-> outcome,
                             code |-> code, doc |-> doc])
  /\ url' = AttemptUrl
  /\ net_used' = TRUE

\* An exception leaves safe_get; no caller catches it.
Raise(exc) ==
  /\ raised' = exc
  /\ sg_status' = "raised"
  /\ IF caller = "none"
     THEN pc' = "done" /\ UNCHANGED exitVars
     ELSE Exit(1, exc.kind)

\* The attempt succeeds: return the decoded body.
SafeGetOk ==
  /\ pc = "safe_get"
  /\ attempt < retries
  /\ \E doc \in ResponseDocs :
       /\ NetworkCall("ok", 200, doc)
       /\ data' = doc
  /\ slept' = 0
  /\ sg_status' = "returned"
  /\ pc' = IF caller = "paged" THEN "paged_resp"
           ELSE IF caller = "articles" THEN "fetch_resp" ELSE "done"
  /\ UNCHANGED << mainVars, fsVars, exitVars, raised, pagedVars, caller,
                  params, auth, retries, attempt, fetchVars >>

\* The attempt ends in an HTTPError and attempts remain: sleep, go on.
SafeGetRetryCondition == attempt < retries - 1

SafeGetHTTPErrorRetry ==
  /\ pc = "safe_get"
  /\ attempt < retries
  /\ SafeGetRetryCondition
  /\ \E code \in HTTPErrorCodes : NetworkCall("HTTPError", code, NoData)
  /\ slept' = REQUEST_DELAY
  /\ attempt' = attempt + 1
  /\ UNCHANGED << pc, mainVars, fsVars, exitVars, raised, pagedVars, caller,
                  params, auth, retries, sg_status, data, fetchVars >>

\* A safe_get that raises the error of the first attempt.
ExhaustedErrorFirst(log) == HTTPError(log[1].code)

\* The exception raised when the last attempt ends in an HTTPError: e.
ExhaustedError(log) == HTTPError(log[Len(log)].code)

\* A failure that rolls the export back: the directory is removed.
SafeGetHTTPErrorRaiseRollback ==
  /\ pc = "safe_get"
  /\ attempt < retries
  /\ ~SafeGetRetryCondition
  /\ \E code \in HTTPErrorCodes : NetworkCall("HTTPError", code, NoData)
  /\ slept' = 0
  /\ Raise(ExhaustedError(calls'))
  /\ dir_exists' = (dir_exists /\ ~mkdir_done)
  /\ files' = IF mkdir_done THEN NoFiles ELSE files
  /\ UNCHANGED << mainVars, mkdir_done, written, pagedVars, caller, params,
                  auth, retries, attempt, data, fetchVars >>

\* The last attempt ends in an HTTPError: raise e.
SafeGetHTTPErrorRaise ==
  /\ pc = "safe_get"
  /\ attempt < retries
  /\ ~SafeGetRetryCondition
  /\ \E code \in HTTPErrorCodes : NetworkCall("HTTPError", code, NoData)
  /\ slept' = 0
  /\ Raise(ExhaustedError(calls'))
  /\ UNCHANGED << mainVars, fsVars, pagedVars, caller, params, auth, retries,
                  attempt, data, fetchVars >>

\* A safe_get whose except clause catches every failure: sleep and go on
\* while attempts remain.
SafeGetOtherErrorRetried ==
  /\ pc = "safe_get"
  /\ attempt < retries
  /\ \E exc \in OtherErrors :
       /\ NetworkCall(exc.kind, IF exc = JSONDecodeError THEN 200 ELSE 0,
                      NoData)
       /\ IF SafeGetRetryCondition
          THEN /\ slept' = REQUEST_DELAY
               /\ attempt' = attempt + 1
               /\ UNCHANGED << pc, exitVars, raised, sg_status >>
          ELSE /\ slept' = 0
               /\ Raise(exc)
               /\ UNCHANGED attempt
  /\ UNCHANGED << mainVars, fsVars, pagedVars, caller, params, auth, retries,
                  data, fetchVars >>

\* urlopen or json.loads fails with something that is no HTTPError: the
\* except clause does not match.
SafeGetOtherError ==
  /\ pc = "safe_get"
  /\ attempt < retries
  /\ \E exc \in OtherErrors :
       /\ NetworkCall(exc.kind, IF exc = JSONDecodeError THEN 200 ELSE 0,
                      NoData)
       /\ Raise(exc)
  /\ slept' = 0
  /\ UNCHANGED << mainVars, fsVars, pagedVars, caller, params, auth, retries,
                  attempt, data, fetchVars >>

\* The for loop ends without a return: raise Exception.
SafeGetFallThrough ==
  /\ pc = "safe_get"
  /\ attempt >= retries
  /\ Raise(PlainException)
  /\ UNCHANGED << mainVars, fsVars, pagedVars, caller, url, params, auth,
                  retries, attempt, calls, data, fetchVars, slept, net_used >>

(* ---------------------------- fetch_articles -------------------------- *)

\* A fetch_articles with mkdir(exist_ok=True): an existing directory is used.
FetchMkdirExistOk ==
  /\ pc = "fetch_mkdir"
  /\ dir_exists' = TRUE
  /\ files' = files
  /\ mkdir_done' = ~dir_exists
  /\ written' = <<>>
  /\ pc' = "fetch_loop"
  /\ UNCHANGED << mainVars, exitVars, raised, pagedVars, frameVars, data,
                  fetchVars, slept, net_used >>

\* directory_path.mkdir(exist_ok=False); FileExistsError is exit(1).
FetchMkdir ==
  /\ pc = "fetch_mkdir"
  /\ IF dir_exists
     THEN /\ Exit(1, "directory_exists")
          /\ UNCHANGED fsVars
     ELSE /\ dir_exists' = TRUE
          /\ files' = NoFiles
          /\ mkdir_done' = TRUE
          /\ written' = <<>>
          /\ pc' = "fetch_loop"
          /\ UNCHANGED exitVars
  /\ UNCHANGED << mainVars, raised, pagedVars, frameVars, data, fetchVars,
                  slept, net_used >>

\* A fetch_articles that does not sleep before it asks for an article.
FetchLoopNoSleep ==
  /\ pc = "fetch_loop"
  /\ i < Len(article_ids)
  /\ CallHelpScoutGet(ArticleUrl(article_ids[i + 1]), NoParams, token,
                      "articles")
  /\ UNCHANGED << mainVars, fsVars, exitVars, raised, pagedVars, data,
                  fetchVars, slept, net_used >>

\* The next article id: sleep, then ask for the article.
FetchLoop ==
  /\ pc = "fetch_loop"
  /\ i < Len(article_ids)
  /\ slept' = slept + REQUEST_DELAY
  /\ CallHelpScoutGet(ArticleUrl(article_ids[i + 1]), NoParams, token,
                      "articles")
  /\ UNCHANGED << mainVars, fsVars, exitVars, raised, pagedVars, data,
                  fetchVars, net_used >>

\* A json.dump of the inner article object only.
PersistedInner(doc) == doc.article

\* What json.dump writes: data, the whole decoded response.
Persisted(doc) == doc

\* The article came: pick the file name and write the file.
FetchWrite ==
  /\ pc = "fetch_resp"
  /\ LET article == data.article
         path == unique_filename(DOMAIN files, article.slug, ".json")
     IN /\ article_path' = path
        /\ files' = [n \in DOMAIN files \cup {path} |->
                       IF n = path THEN Persisted(data) ELSE files[n]]
        /\ written' = Append(written, [path |-> path,
                                       existed |-> path \in DOMAIN files,
                                       id |-> article_ids[i + 1],
                                       received |-> data])
  /\ i' = i + 1
  /\ pc' = "fetch_loop"
  /\ SafeGetFrameGone
  /\ UNCHANGED << mainVars, dir_exists, mkdir_done, exitVars, raised,
                  pagedVars, data, article_ids, articles, slept, net_used >>

\* No id is left: return articles; export_help_scout_docs and main end.
FetchReturn ==
  /\ pc = "fetch_loop"
  /\ i >= Len(article_ids)
  /\ Exit(0, "saved")
  /\ UNCHANGED << mainVars, fsVars, raised, pagedVars, frameVars, data,
                  fetchVars, slept, net_used >>

(* ----------------------------- environment ---------------------------- *)

\* Another process creates the output directory after main found it
\* missing and before fetch_articles creates it. Nothing reads the file
\* system in between, so the step is taken right before mkdir.
ExternalMkdir ==
  /\ pc = "fetch_mkdir"
  /\ ~dir_exists
  /\ dir_exists' = TRUE
  /\ files' = [n \in {"intro.json"} |-> OldDoc]
  /\ UNCHANGED << pc, mainVars, mkdir_done, written, exitVars, raised,
                  pagedVars, frameVars, data, fetchVars, slept, net_used >>

(* --------------------------- specifications --------------------------- *)

Next ==
  \/ MainToken
  \/ MainListCollections
  \/ MainCheckDir
  \/ PagedLoop
  \/ PagedResponse
  \/ PagedReturn
  \/ GetCollectionsReturn
  \/ GetArticleIdsReturn
  \/ SafeGetOk
  \/ SafeGetHTTPErrorRetry
  \/ SafeGetHTTPErrorRaise
  \/ SafeGetOtherError
  \/ FetchMkdir
  \/ FetchLoop
  \/ FetchWrite
  \/ FetchReturn
  \/ ExternalMkdir

\* The whole program, from main.
Spec == Init /\ [][Next]_vars

(* ------------------------- safe_get on its own ------------------------ *)

\* safe_get(url, params, auth, retries) called directly: any number of
\* attempts up to MaxAttempts, with and without query parameters and
\* credentials.
InitSafeGet ==
  /\ pc = "safe_get"
  /\ args = [token |-> NoneBytes, collection |-> NoneStr,
             output_dir |-> NoneStr]
  /\ environ = NoneBytes
  /\ dir_exists = FALSE
  /\ files = NoFiles
  /\ InitRest
  /\ caller = "none"
  /\ url = ArticleUrl("a1")
  /\ params \in {NoParams, << <<"page", 1>> >>}
  /\ auth \in {NoAuth, <<TokenABC, PasswordX>>, <<TokenABC, NoneBytes>>,
               <<TokenXY, EmptyBytes>>}
  /\ retries \in 0..MaxAttempts
  /\ attempt = 0
  /\ calls = <<>>
  /\ sg_status = "running"

NextSafeGet ==
  \/ SafeGetOk
  \/ SafeGetHTTPErrorRetry
  \/ SafeGetHTTPErrorRaise
  \/ SafeGetOtherError
  \/ SafeGetFallThrough

SpecSafeGet == InitSafeGet /\ [][NextSafeGet]_vars

(* --------------------- unique_filename on its own --------------------- *)

\* The names base.json and base-k.json, k up to MaxSuffix.
CandidateNames ==
  { b \o ".json" : b \in SlugSet }
    \cup { b \o "-" \o ToString(k) \o ".json" : b \in SlugSet, k \in 1..MaxSuffix }

\* unique_filename(directory_path, article["slug"], ".json") called on any
\* directory holding some of the candidate names.
InitUnique ==
  /\ pc = "unique_filename"
  /\ args = [token |-> NoneBytes, collection |-> NoneStr,
             output_dir |-> NoneStr]
  /\ environ = NoneBytes
  /\ dir_exists = TRUE
  /\ files \in { [n \in S |-> OldDoc] : S \in SUBSET CandidateNames }
  /\ token = NoneBytes
  /\ directory_path = "out"
  /\ mkdir_done = FALSE
  /\ written = <<>>
  /\ status = NonePage
  /\ exit_reason = "running"
  /\ raised = NoExc
  /\ entity_name = NoneStr
  /\ paged_url = NoneStr
  /\ current_page = NonePage
  /\ total_pages = NonePage
  /\ next_page = 1
  /\ entities = <<>>
  /\ page_requests = <<>>
  /\ page_responses = <<>>
  /\ data \in { [kind |-> "article", article |-> [slug |-> s, id |-> "a1"]] :
                  s \in SlugSet }
  /\ article_ids = <<"a1">>
  /\ i = 0
  /\ articles = <<>>
  /\ article_path = NoneStr
  /\ slept = 0
  /\ net_used = FALSE
  /\ InitIdleFrame

UniqueFilenameCall ==
  /\ pc = "unique_filename"
  /\ article_path' = unique_filename(DOMAIN files, data.article.slug, ".json")
  /\ pc' = "done"
  /\ UNCHANGED << mainVars, fsVars, exitVars, raised, pagedVars, frameVars,
                  data, article_ids, i, articles, slept, net_used >>

NextUnique == UniqueFilenameCall

SpecUnique == InitUnique /\ [][NextUnique]_vars

(* ------------------------------- claims ------------------------------- *)

Paths(log) == { log[k].path : k \in 1..Len(log) }

\* C1: all through fetch_articles the export directory holds exactly one
\* file per article written so far, no write goes to a path that was
\* there before it, and a completed run over n ids leaves n files with n
\* different names, repeated ids and repeated slugs included.
C1_OneFilePerArticle ==
  mkdir_done =>
    /\ Len(written) = i
    /\ Cardinality(DOMAIN files) = i
    /\ DOMAIN files = Paths(written)
    /\ \A k \in 1..Len(written) : ~written[k].existed
    /\ \A j, k \in 1..Len(written) :
         j # k => written[j].path # written[k].path
    /\ (exit_reason = "saved" =>
          /\ i = Len(article_ids)
          /\ Cardinality(DOMAIN files) = Len(article_ids))

\* A completed export of the same id twice, the server giving the same slug
\* both times.
C1_Witness ==
  /\ exit_reason = "saved"
  /\ article_ids = <<"a1", "a1">>
  /\ DOMAIN files = {"intro.json", "intro-1.json"}
  /\ files["intro.json"].article.slug = "intro"
  /\ files["intro-1.json"].article.slug = "intro"

\* The items of the pages received, page after page.
RECURSIVE ConcatItems(_)
ConcatItems(responses) ==
  IF responses = <<>> THEN <<>>
  ELSE Head(responses).items \o ConcatItems(Tail(responses))

RECURSIVE SumItems(_)
SumItems(responses) ==
  IF responses = <<>> THEN 0
  ELSE Len(Head(responses).items) + SumItems(Tail(responses))

\* The server answered every page request so far with the page asked for
\* and with the same total.
ServerEchoes ==
  /\ Len(page_responses) = Len(page_requests)
  /\ \A k \in 1..Len(page_responses) :
       /\ page_responses[k].page = page_requests[k]
       /\ page_responses[k].pages = page_responses[1].pages

\* C2: against a server that has P >= 1 pages, gives the same total P in
\* every response and echoes the page asked for, the listing returns after
\* exactly P page requests, for the pages 1..P in order, and its result is
\* the items of page 1, then of page 2, and so on, c1 + ... + cP in all,
\* with what appears on several pages kept as often as it appears.
C2_PagesConcatenated ==
  (pc = "paged_ret" /\ ServerEchoes /\ page_responses[1].pages >= 1) =>
    /\ Len(page_requests) = page_responses[1].pages
    /\ \A k \in 1..Len(page_requests) : page_requests[k] = k
    /\ entities = ConcatItems(page_responses)
    /\ Len(entities) = SumItems(page_responses)

\* Two pages that carry the same article summary.
C2_Witness ==
  /\ pc = "paged_ret"
  /\ ServerEchoes
  /\ page_responses[1].pages = 2
  /\ page_responses[1].items = << [id |-> "a2"] >>
  /\ page_responses[2].items = << [id |-> "a2"] >>
  /\ entities = << [id |-> "a2"], [id |-> "a2"] >>

\* Every network call of the log but the last ended in an HTTP error.
FailedBefore(n) == \A k \in 1..(n - 1) : calls[k].outcome = "HTTPError"

ForeignFiles == [n \in {"intro.json"} |-> OldDoc]

\* fetch_articles is past its mkdir.
InFetchLoop ==
  \/ pc \in {"fetch_loop", "fetch_resp"}
  \/ caller = "articles"
  \/ exit_reason = "saved"

\* C4: fetch_articles called on a directory that exists reports it and ends
\* the process with status 1, having asked for no article and written no
\* file, the directory being as it was; and whenever fetch_articles asks
\* for an article or writes a file, it has created the directory before.
C4_ExistingDirectoryRefused ==
  /\ exit_reason = "directory_exists" =>
       /\ pc = "exit"
       /\ status = 1
       /\ ~mkdir_done
       /\ sg_status = "idle"
       /\ calls = <<>>
       /\ i = 0
       /\ written = <<>>
       /\ dir_exists
       /\ files = ForeignFiles
  /\ (pc = "fetch_mkdir" => sg_status = "idle" /\ written = <<>> /\ ~mkdir_done)
  /\ (InFetchLoop => mkdir_done)
  /\ (written # <<>> => mkdir_done)

\* The directory appeared while the article ids were listed; two articles
\* were to be fetched.
C4_Witness ==
  /\ exit_reason = "directory_exists"
  /\ status = 1
  /\ Len(article_ids) = 2
  /\ files = ForeignFiles

\* The file system as the process found it: main has not changed it.
FileSystemUntouched ==
  /\ ~mkdir_done
  /\ written = <<>>
  /\ files = IF dir_exists THEN ForeignFiles ELSE NoFiles

\* C5: a run of main that ends in a configuration error known at startup
\* (no token from --token or HELPSCOUTAUTH; --collection given and the
\* output directory found existing) ends with a non-zero status, without
\* a network call, without creating the directory and without writing or
\* changing a file; and these two conditions do end the run that way.
C5_ConfigErrorsBeforeEffects ==
  /\ exit_reason \in {"no_token", "output_dir_exists"} =>
       /\ pc = "exit"
       /\ status = 2
       /\ ~net_used
       /\ calls = <<>>
       /\ sg_status = "idle"
       /\ FileSystemUntouched
  /\ (pc # "main" /\ ~Truthy(args.token) /\ environ = NoneBytes)
       => exit_reason = "no_token"
  /\ exit_reason = "output_dir_exists" => (dir_exists /\ args.collection # NoneStr)
  /\ (entity_name = "articles" => ~dir_exists)
  /\ (pc \notin {"main", "main_collection"} /\ args.collection # NoneStr
        /\ token # NoneBytes /\ ~net_used /\ dir_exists)
       => exit_reason = "output_dir_exists"

\* --token abc --collection c1 --output_dir out, and out exists.
C5_Witness ==
  /\ exit_reason = "output_dir_exists"
  /\ status = 2
  /\ token = TokenABC
  /\ args.output_dir = "out"
  /\ files = ForeignFiles
  /\ ~net_used

\* The requests of the safe_get call in progress, first attempts and
\* retries, all carry the header h.
AllRequestsCarry(h) ==
  \A k \in 1..Len(calls) : calls[k].request.Authorization = h

Numbered(base, k) == base \o "-" \o ToString(k) \o ".json"

\* C7: for any directory and base name b, unique_filename returns b.json if
\* that does not exist, else b-k.json for the least k >= 1 for which that
\* does not exist; the name returned is never one of the directory, and
\* the directory is as it was. With intro.json there it returns
\* intro-1.json, with intro.json and intro-1.json there, intro-2.json.
C7_LeastFreeName ==
  pc = "done" =>
    LET names == DOMAIN files
        b == data.article.slug
    IN /\ article_path \notin names
       /\ (b \o ".json") \notin names => article_path = b \o ".json"
       /\ (b \o ".json") \in names =>
            \E k \in 1..(Cardinality(names) + 1) :
              /\ article_path = Numbered(b, k)
              /\ \A j \in 1..(k - 1) : Numbered(b, j) \in names
       /\ (b = "intro" /\ names = {"intro.json"})
            => article_path = "intro-1.json"
       /\ (b = "intro" /\ names = {"intro.json", "intro-1.json"})
            => article_path = "intro-2.json"
       /\ names \subseteq CandidateNames
       /\ \A n \in names : files[n] = OldDoc

\* intro.json and intro-1.json exist: intro-2.json is returned.
C7_Witness ==
  /\ pc = "done"
  /\ data.article.slug = "intro"
  /\ DOMAIN files = {"intro.json", "intro-1.json"}
  /\ article_path = "intro-2.json"

\* C8: fetch_articles takes the ids in input order, one at a time: while
\* the article of the (i+1)-th id is asked for, exactly the files of the
\* first i ids are written, and every request asks for that id; the file of
\* the k-th id holds the whole document received for it, envelope and
\* "article" key included. Two ids whose articles both have the slug intro
\* end up as intro.json, then intro-1.json, each with its own envelope.
C8_InOrderWholeDocument ==
  mkdir_done =>
    /\ Len(written) = i
    /\ \A k \in 1..Len(written) :
         /\ written[k].id = article_ids[k]
         /\ written[k].path \in DOMAIN files
         /\ files[written[k].path] = written[k].received
         /\ written[k].received.kind = "article"
         /\ written[k].received.article.id = article_ids[k]
         /\ files[written[k].path].article.slug = written[k].received.article.slug
    /\ caller = "articles" =>
         /\ i < Len(article_ids)
         /\ \A k \in 1..Len(calls) :
              calls[k].request.url = ArticleUrl(article_ids[i + 1])
    /\ (Len(written) >= 2
          /\ written[1].received.article.slug = "intro"
          /\ written[2].received.article.slug = "intro")
         => /\ written[1].path = "intro.json"
            /\ written[2].path = "intro-1.json"
            /\ files["intro.json"] = written[1].received
            /\ files["intro-1.json"] = written[2].received

\* a1 and a2, both with the slug intro, exported.
C8_Witness ==
  /\ exit_reason = "saved"
  /\ article_ids = <<"a1", "a2">>
  /\ DOMAIN files = {"intro.json", "intro-1.json"}
  /\ files["intro.json"] =
       [kind |-> "article", article |-> [slug |-> "intro", id |-> "a1"]]
  /\ files["intro-1.json"] =
       [kind |-> "article", article |-> [slug |-> "intro", id |-> "a2"]]

\* C9: when the article of the k-th id fails with an HTTP error on every
\* attempt, the process ends there: the k - 1 files written before are in
\* the directory with the content they were written with, there is no
\* file for the k-th id, the only requests of the failed call were for the
\* k-th id, nothing runs afterwards, and the directory is still there.
C9_NoRollback ==
  (exit_reason = "HTTPError" /\ caller = "articles") =>
    /\ pc = "exit"
    /\ status = 1
    /\ ~ENABLED Next
    /\ dir_exists
    /\ mkdir_done
    /\ i < Len(article_ids)
    /\ Len(written) = i
    /\ DOMAIN files = Paths(written)
    /\ Cardinality(DOMAIN files) = i
    /\ \A k \in 1..Len(written) :
         /\ written[k].id = article_ids[k]
         /\ files[written[k].path] = written[k].received
    /\ Len(calls) = retries
    /\ \A k \in 1..Len(calls) :
         /\ calls[k].outcome = "HTTPError"
         /\ calls[k].request.url = ArticleUrl(article_ids[i + 1])
    /\ raised = HTTPError(calls[Len(calls)].code)

\* The first article is written, the second fails twice.
C9_Witness ==
  /\ exit_reason = "HTTPError"
  /\ caller = "articles"
  /\ i = 1
  /\ Len(article_ids) = 2
  /\ DOMAIN files = {"intro.json"}
  /\ Len(calls) = 2

\* The page numbers asked for, one per loop iteration, start at 1 and grow.
RequestsIncrease ==
  /\ page_requests # <<>> => page_requests[1] = 1
  /\ \A k \in 1..(Len(page_requests) - 1) :
       page_requests[k] < page_requests[k + 1]

\* No page is asked for after a response whose page is >= its pages.
StopsAtLastPage ==
  \A k \in 1..Len(page_responses) :
    page_responses[k].page >= page_responses[k].pages
      => Len(page_requests) = k

\* C10 as claimed: whatever page and pages the responses carry, the pages
\* asked for start at 1 and strictly increase, and none is asked for after
\* a response whose page is >= its pages.
C10_AlwaysIncreasing == RequestsIncrease /\ StopsAtLastPage

\* Every response so far carries a page number not below the one asked for.
ResponsesNotBehind ==
  \A k \in 1..Len(page_responses) :
    page_responses[k].page >= page_requests[k]

\* C10: the first page asked for is 1, and the page asked for next is the
\* page number of the last response plus one; so as long as every response
\* carries a page number not below the one asked for (an echoing server
\* does) the pages asked for strictly increase; and whatever the responses
\* carry, no page is asked for after a response whose page is >= its pages.
C10_IncreasingIfNotBehind ==
  /\ page_requests # <<>> => page_requests[1] = 1
  /\ \A k \in 1..(Len(page_requests) - 1) :
       page_requests[k + 1] = page_responses[k].page + 1
  /\ ResponsesNotBehind => RequestsIncrease
  /\ StopsAtLastPage

\* Pages 1 and 2 asked for and answered, the second answer being the last
\* page.
C10_Witness ==
  /\ pc = "paged_ret"
  /\ page_requests = <<1, 2>>
  /\ ResponsesNotBehind
  /\ page_responses[1].pages = 2
  /\ page_responses[2].page >= page_responses[2].pages

\* The listing is past its first response.
FirstPageAnswered == Len(page_responses) >= 1

\* C11 as claimed: a first response with pages = 0, or with no items, makes
\* the listing return an empty sequence at once, without a second request.
C11_EmptyFirstPageStops ==
  (FirstPageAnswered
     /\ (page_responses[1].pages = 0 \/ page_responses[1].items = <<>>)) =>
    /\ Len(page_requests) = 1
    /\ (pc = "paged_ret" => entities = <<>>)

\* C11: a first response with pages = 0, or with no items and a page that
\* is not below its pages, ends the listing without a second request, and
\* what is returned is the items of that response: the empty sequence when
\* there are none. (The loop looks at page and pages only: a first page
\* without items and with page < pages is followed by a second request.)
C11_LastFirstPageStops ==
  (FirstPageAnswered
     /\ \/ page_responses[1].pages = 0
        \/ /\ page_responses[1].items = <<>>
           /\ page_responses[1].page >= page_responses[1].pages) =>
    /\ Len(page_requests) = 1
    /\ Len(page_responses) = 1
    /\ ~PagedLoopCondition
    /\ pc \in {"paged_loop", "paged_ret"}
    /\ entities = page_responses[1].items
    /\ (page_responses[1].items = <<>> => entities = <<>>)

\* Page 1 of 0 pages, without items: the listing returns the empty sequence
\* after one request.
C11_Witness ==
  /\ pc = "paged_ret"
  /\ page_requests = <<1>>
  /\ page_responses[1].page = 1
  /\ page_responses[1].pages = 0
  /\ page_responses[1].items = <<>>
  /\ entities = <<>>

\* The URLs a request for page n of the collections listing may have: the
\* first attempt's, and the retry's.
CollectionsPageUrls(n) ==
  LET query == "?" \o urlencode(<< <<"page", n>> >>)
  IN {CollectionsUrl \o query, CollectionsUrl \o query \o query}

\* C12: main run with a token and without --collection only lists the
\* collections: whenever such a run ends, it ends with a non-zero status
\* (1 after printing the collections found, 2 when none was found, 1 on an
\* uncaught error); it never creates the directory, never asks for an
\* article or for the articles of a collection, and never writes a file.
C12_ListingOnly ==
  (args.collection = NoneStr /\ pc # "main" /\ token # NoneBytes) =>
    /\ ~mkdir_done
    /\ written = <<>>
    /\ files = (IF dir_exists THEN ForeignFiles ELSE NoFiles)
    /\ directory_path = NoneStr
    /\ caller \in {"none", "paged"}
    /\ entity_name \in {NoneStr, "collections"}
    /\ pc \notin {"fetch_mkdir", "fetch_loop", "fetch_resp"}
    /\ (entity_name = "collections" => paged_url = CollectionsUrl)
    /\ \A k \in 1..Len(calls) :
         calls[k].request.url
           \in CollectionsPageUrls(page_requests[Len(page_requests)])
    /\ (pc = "exit" =>
          /\ status \in {1, 2}
          /\ exit_reason \in {"collections_listed", "no_collections",
                              "HTTPError", "URLError", "JSONDecodeError"}
          /\ (exit_reason = "collections_listed" => status = 1)
          /\ (exit_reason = "no_collections" => status = 2))

\* The server has the collections c1 and c2: they are printed and the
\* process ends with status 1, no directory made.
C12_Witness ==
  /\ args.collection = NoneStr
  /\ exit_reason = "collections_listed"
  /\ status = 1
  /\ data.items = CollectionCatalogue
  /\ ~dir_exists
  /\ ~mkdir_done

\* This step makes a network call.
NetworkCallStep == Len(calls') = Len(calls) + 1

\* C13: every network call but the first of the run is made after at least
\* REQUEST_DELAY seconds of sleep since the network call before it: page
\* request to page request, last page request to first article request,
\* article request to article request, failed attempt to its retry.
C13_DelayBetweenCalls ==
  [][(NetworkCallStep /\ net_used) => slept >= REQUEST_DELAY]_vars

\* The request for the second article is out, one delay after the first
\* article came.
C13_Witness ==
  /\ caller = "articles"
  /\ i = 1
  /\ Len(calls) = 1
  /\ net_used
  /\ slept = 0

\* C14: within one safe_get call with query parameters every attempt asks
\* for the same URL, the caller's URL followed by "?" and the encoded query
\* string once; a retry asks for the URL the first attempt asked for.
C14_SameUrlEveryAttempt ==
  (caller = "none" /\ params # NoParams) =>
    \A k \in 1..Len(calls) :
      /\ calls[k].request.url = ArticleUrl("a1") \o "?" \o urlencode(params)
      /\ calls[k].request.url = calls[1].request.url

\* C14 in the listing: every attempt at a page asks for the listing's URL
\* with that page as its query string, once.
C14_SamePageUrlEveryAttempt ==
  caller = "paged" =>
    \A k \in 1..Len(calls) :
      calls[k].request.url =
        paged_url \o "?page=" \o ToString(page_requests[Len(page_requests)])

\* The positions of the listing of the articles, and of the export loop.
ListingArticles == entity_name = "articles"
FetchingArticles == caller = "articles" \/ pc \in {"fetch_loop", "fetch_resp"}

\* C15: with --collection the phases of main follow one another: no network
\* call before the output directory was settled and found missing; while
\* the articles are listed the directory is not created yet; when articles
\* are asked for, the listing is over and the directory created. So a run
\* whose listing fails ends without an output directory.
C15_PhasesInOrder ==
  (args.collection # NoneStr) =>
    /\ (net_used => directory_path # NoneStr)
    /\ (pc \in {"main", "main_collection"} => ~net_used /\ ~mkdir_done)
    /\ (ListingArticles =>
          /\ ~mkdir_done
          /\ ~dir_exists
          /\ written = <<>>
          /\ caller \in {"none", "paged"})
    /\ (caller = "paged" => ListingArticles)
    /\ (pc = "fetch_mkdir" => ~ListingArticles /\ ~mkdir_done /\ net_used)
    /\ (FetchingArticles =>
          /\ mkdir_done
          /\ ~ListingArticles
          /\ page_requests = <<>>)
    /\ (mkdir_done => ~ListingArticles /\ net_used)
    /\ ((pc = "exit" /\ caller = "paged") =>
          /\ exit_reason \in {"HTTPError", "URLError", "JSONDecodeError"}
          /\ ~mkdir_done
          /\ ~dir_exists
          /\ files = NoFiles)

\* The second attempt at a page of the listing fails too: the run ends
\* with no output directory.
C15_Witness ==
  /\ args.collection = "c1"
  /\ pc = "exit"
  /\ exit_reason = "HTTPError"
  /\ caller = "paged"
  /\ Len(calls) = 2
  /\ ~dir_exists
  /\ ~mkdir_done

\* C16: fetch_articles returns the articles it fetched: after a run that
\* saved n articles the returned list has n elements, the documents
\* received, in the order of the ids, and the count reported as saved is
\* the number of files written.
C16_ReturnsArticles ==
  (exit_reason = "saved") =>
    /\ Len(articles) = Len(article_ids)
    /\ Len(articles) = Len(written)
    /\ Len(articles) = Cardinality(DOMAIN files)
    /\ \A k \in 1..Len(articles) : articles[k] = written[k].received

\* The kinds of failure that are no HTTPError.
OtherErrorKinds == { exc.kind : exc \in OtherErrors }

====
